---- MODULE Spec2Model ----
(***************************************************************************)
(* A model of the xeokit chatbot (src/chatbot.ts, first script, lines      *)
(* 1-241): the directory loader, the batched ingestion into the vector     *)
(* store with its concurrency gate and retry/backoff helper, and the       *)
(* question-answering chain.                                               *)
(*                                                                         *)
(* JavaScript runs one macrotask at a time: the points at which the        *)
(* environment can interleave are the completions of I/O (a vector-store   *)
(* write resolving or rejecting) and timers firing.  Each action below is  *)
(* one such completion together with every synchronous step and microtask  *)
(* continuation the code runs in response to it.                           *)
(***************************************************************************)
EXTENDS Integers, Sequences, FiniteSets, TLC

VARIABLES
    \* retryWithBackoff, called on its own (SpecRetry)
    maxRetries,     \* parameter maxRetries
    initialDelay,   \* parameter initialDelay
    fnPlan,         \* behaviour of the parameter fn: [always, r]
    rtTask,         \* the frame of the call: [retries, phase, delay]
    rtCalls,        \* number of invocations of fn so far
    rtWaits,        \* the delays handed to setTimeout so far, in order
    \* loadDocumentsFromDirectory, called on its own (SpecLoad)
    files,          \* the listing fs.readdir resolved to
    fileIdx,        \* number of entries of files the for loop has consumed
    documents,      \* the local array documents
    ldPc,           \* "loop" | "returned"
    \* initializeChatbot and initializeVectorStore (SpecIngest)
    pc,             \* "start" | "loaded" | "ingesting" | "done" | "failed"
    sourceType,     \* argument sourceType of initializeChatbot
    loadersRun,     \* the loaders initializeChatbot has called, in order
    rawDocs,        \* the loader's result
    docs,           \* the splitter's result, the argument of initializeVectorStore
    i,              \* the loop variable i of initializeVectorStore
    tasks,          \* per element of docs: [st, frame] of its limit(...) promise
    queue,          \* the queue of the limiter (indices into docs)
    activeCount,    \* the limiter's count of running functions
    handed,         \* the [index, doc] pairs passed to QdrantVectorStore.fromDocuments
    writes,         \* per element of docs: fromDocuments calls that resolved
    progress,       \* the "Processed x out of y" lines logged: <<x, y>>
    retryLog,       \* the distinct "Retry r after d ms" lines logged: <<r, d>>
    batches,        \* the batches sliced so far, as sequences of indices
    error,          \* the rejection of initializeChatbot, if any
    initialized,    \* "Vector store initialized with documents." was logged
    \* the chain of createChatbot and askQuestion (SpecQA)
    qaState,        \* "Idle" | "Retrieving" | "Answering"
    question,       \* the argument question of askQuestion
    retrieved,      \* what retriever.getRelevantDocuments resolved to
    llmInput,       \* the prompt the language model was invoked with
    llmResponse,    \* what the language model resolved to
    answer,         \* how askQuestion ended: [ok, value]
    retrievals,     \* calls of the retriever for this question
    generations,    \* invocations of the language model for this question
    qaTrace,        \* the states this question has gone through
    asked           \* number of calls of askQuestion so far

rtVars == <<maxRetries, initialDelay, fnPlan, rtTask, rtCalls, rtWaits>>

ldVars == <<files, fileIdx, documents, ldPc>>

ingVars == <<pc, sourceType, loadersRun, rawDocs, docs, i, tasks, queue,
             activeCount, handed, writes, progress, retryLog, batches,
             error, initialized>>

qaVars == <<qaState, question, retrieved, llmInput, llmResponse, answer,
            retrievals, generations, qaTrace, asked>>

vars == <<rtVars, ldVars, ingVars, qaVars>>

----------------------------------------------------------------------------
(* Bounds of the model *)

MaxRetriesBound == 4    \* maxRetries is drawn from 0..MaxRetriesBound
MaxFails == 5           \* fn fails its first r calls, r in 0..MaxFails
MaxFiles == 2           \* a directory listing has at most MaxFiles entries
MaxChunksPerDoc == 3    \* the splitter cuts a document into at most this many chunks
MaxRetrieved == 2       \* the retriever returns at most MaxRetrieved documents
MaxQuestions == 2       \* askQuestion is called at most MaxQuestions times
batchSize == 3          \* const batchSize (50 in the source, scaled down)
concurrency == 2        \* the argument of pLimit (5 in the source, scaled down)

(* Program constants *)

DefaultMaxRetries == 3      \* retryWithBackoff(fn, maxRetries = 3, ...)
DefaultInitialDelay == 1000 \* retryWithBackoff(fn, ..., initialDelay = 1000)

InitialDelays == {1, DefaultInitialDelay}

----------------------------------------------------------------------------
(* Arithmetic helpers *)

Min(a, b) == IF a <= b THEN a ELSE b

RECURSIVE Pow2(_)
\* Math.pow(2, n) for a natural n
Pow2(n) == IF n = 0 THEN 1 ELSE 2 * Pow2(n - 1)

----------------------------------------------------------------------------
(* retryWithBackoff (src/chatbot.ts 120-133).  A frame is                  *)
(* [retries, phase, delay]; phase is                                       *)
(*   "calling"     fn() has been invoked and its promise is pending        *)
(*   "waiting"     the setTimeout(resolve, delay) promise is pending       *)
(*   "returned"    return await fn() completed: fn's value is returned     *)
(*   "thrown"      throw error: the last error of fn is raised             *)
(*   "fellthrough" the while loop ended: the function returns undefined    *)

\* let retries = 0; while (retries < maxRetries) { try { return await fn()
RetryEnter(mr) ==
    IF 0 < mr
    THEN [retries |-> 0, phase |-> "calling", delay |-> 0]
    ELSE [retries |-> 0, phase |-> "fellthrough", delay |-> 0]

\* return await fn();  -- fn's promise resolved
RetryOnResolve(t) == [t EXCEPT !.phase = "returned"]

\* The delay of the wait that follows the failure counted as retries = r
BackoffDelay(delay0, r) == delay0 * Pow2(r)

\* A slip of the exhaustion test: if (retries > maxRetries) throw error
RetryOnRejectLate(t, mr, delay0) ==
    LET r == t.retries + 1 IN
    IF r > mr
    THEN [t EXCEPT !.retries = r, !.phase = "thrown"]
    ELSE [t EXCEPT !.retries = r, !.phase = "waiting",
                   !.delay = BackoffDelay(delay0, r)]

\* catch (error) { retries++; if (retries === maxRetries) throw error;
\*                 const delay = ...; await new Promise(setTimeout) }
RetryOnReject(t, mr, delay0) ==
    LET r == t.retries + 1 IN
    IF r = mr
    THEN [t EXCEPT !.retries = r, !.phase = "thrown"]
    ELSE [t EXCEPT !.retries = r, !.phase = "waiting",
                   !.delay = BackoffDelay(delay0, r)]

\* console.log(`Retry ${retries} after ${delay}ms`)
RetryLine(t) == <<t.retries, t.delay>>

\* the timer fired: the catch block ends, the while condition is tested again
RetryOnTimeout(t, mr) ==
    IF t.retries < mr
    THEN [t EXCEPT !.phase = "calling"]
    ELSE [t EXCEPT !.phase = "fellthrough"]

------------------------------------------------------------

\* no call of retryWithBackoff in progress
NoFrame == [retries |-> 0, phase |-> "none", delay |-> 0]

----------------------------------------------------------------------------
(* loadDocumentsFromDirectory (src/chatbot.ts 25-71).  A file name is a    *)
(* sequence of one-character strings, so that path.extname and             *)
(* toLowerCase are computed on its characters.                             *)

UpperCase == <<"A", "B", "C", "D", "E", "F", "G", "H", "I", "J", "K", "L", "M",
               "N", "O", "P", "Q", "R", "S", "T", "U", "V", "W", "X", "Y", "Z">>
LowerCase == <<"a", "b", "c", "d", "e", "f", "g", "h", "i", "j", "k", "l", "m",
               "n", "o", "p", "q", "r", "s", "t", "u", "v", "w", "x", "y", "z">>

LowerChar(c) ==
    IF \E k \in 1..26 : UpperCase[k] = c
    THEN LowerCase[CHOOSE k \in 1..26 : UpperCase[k] = c]
    ELSE c

\* String.prototype.toLowerCase left out: the extension is compared as typed
ToLowerCaseKeep(s) == s

\* String.prototype.toLowerCase
ToLowerCase(s) == [k \in 1..Len(s) |-> LowerChar(s[k])]

\* the largest index of character c in s, 0 when s has no c
LastIndexOf(s, c) ==
    IF \E k \in 1..Len(s) : s[k] = c
    THEN CHOOSE k \in 1..Len(s) : s[k] = c /\ \A m \in (k + 1)..Len(s) : s[m] # c
    ELSE 0

\* the last portion of a path
Basename(s) == SubSeq(s, LastIndexOf(s, "/") + 1, Len(s))

\* path.extname: from the last "." of the last portion to its end; empty
\* when that portion has no "." or its only "." is its first character
Extname(s) ==
    LET b == Basename(s)
        d == LastIndexOf(b, ".")
    IN  IF d = 0 \/ d = 1 \/ b = <<".", ".">> THEN <<>> ELSE SubSeq(b, d, Len(b))

ExtTxt == <<".", "t", "x", "t">>
ExtMd == <<".", "m", "d">>
ExtHtml == <<".", "h", "t", "m", "l">>

\* the value of an attribute cheerio did not find
Undefined == [defined |-> FALSE, value |-> ""]
Attr(v) == [defined |-> TRUE, value |-> v]

\* a || '' on an attribute value (undefined and '' are both falsy)
OrEmpty(a) == IF a.defined THEN a.value ELSE ""

(* An entry of the listing is [name, readable, text, title, description,   *)
(* main]: its name, whether fs.readFile resolves for it, the text readFile *)
(* resolves to, and what cheerio extracts from that text: $('title')       *)
(* .text(), $('meta[name="description"]').attr('content') and              *)
(* $('.content').text().                                                   *)

\* new Document({ pageContent: content, metadata })
Document(content, metadata) == [pageContent |-> content, metadata |-> metadata]

\* One iteration of the for loop over files: the documents array after it
ProcessFile(documentsArr, e) ==
    LET ext == ToLowerCase(Extname(e.name)) IN
    CASE ext = ExtTxt \/ ext = ExtMd ->
            IF e.readable
            THEN Append(documentsArr, Document(e.text, [source |-> e.name]))
            ELSE documentsArr     \* readFile rejected: caught and logged
      [] ext = ExtHtml ->
            IF e.readable
            THEN LET title == e.title
                     description == OrEmpty(e.description)
                     mainContent == e.main
                     content == title \o "\n\n" \o description \o "\n\n"
                                      \o mainContent
                 IN  Append(documentsArr,
                            Document(content, [source |-> e.name,
                                               title |-> title,
                                               description |-> description]))
            ELSE documentsArr     \* readFile rejected: caught and logged
      [] OTHER -> documentsArr    \* Unsupported file type: continue

RECURSIVE LoadFrom(_, _, _)
\* the for loop from entry k on
LoadFrom(listing, k, documentsArr) ==
    IF k > Len(listing) THEN documentsArr
    ELSE LoadFrom(listing, k + 1, ProcessFile(documentsArr, listing[k]))

\* loadDocumentsFromDirectory, from the listing readdir resolved to
LoadDocumentsFromDirectory(listing) == LoadFrom(listing, 1, <<>>)

(* The entries the model draws listings from *)

NameTxt == <<"a", ".", "t", "x", "t">>
NameMdUpper == <<"b", ".", "M", "D">>
NameHtml == <<"c", ".", "H", "t", "m", "l">>
NameNested == <<"s", "/", "f", ".", "m", "d">>
NamePdf == <<"e", ".", "p", "d", "f">>
NameDotfile == <<".", "m", "d">>
NameNoExt == <<"s", ".", "d", "/", "R", "E", "A", "D", "M", "E">>

Texts == {"", "Hello world"}

TextEntries ==
    [name : {NameTxt, NameMdUpper, NameNested}, readable : BOOLEAN, text : Texts,
     title : {""}, description : {Undefined}, main : {""}]

HtmlEntries ==
    [name : {NameHtml}, readable : BOOLEAN, text : {"<html>"},
     title : {"", "Title"}, description : {Undefined, Attr(""), Attr("About")},
     main : {"", "Body"}]

OtherEntries ==
    [name : {NamePdf, NameDotfile, NameNoExt}, readable : {TRUE}, text : {"x"},
     title : {""}, description : {Undefined}, main : {""}]

Entries == TextEntries \cup HtmlEntries \cup OtherEntries

\* all sequences over S of length at most n
SeqsUpTo(S, n) == UNION {[1..k -> S] : k \in 0..n}
----------------------------------------------------------------------------
(* initializeChatbot and initializeVectorStore (src/chatbot.ts 90-117,     *)
(* 149-174)                                                                *)

\* Array.prototype.slice(a, b) for 0 <= a <= b: the elements of 0-based
\* index a .. b-1 that exist
Slice(s, a, b) == SubSeq(s, a + 1, Min(b, Len(s)))

\* A batch reaching one element into the next: docs.slice(i, i + batchSize + 1)
BatchIndicesOverlapping(ds, i0) ==
    [k \in 1..Len(Slice(ds, i0, i0 + batchSize + 1)) |-> i0 + k]

\* the positions in docs (counted from 1) of docs.slice(i0, i0 + batchSize)
BatchIndices(ds, i0) ==
    [k \in 1..Len(Slice(ds, i0, i0 + batchSize)) |-> i0 + k]

\* The for loop advancing by one element instead of one batch
NextIndexByOne(i0) == i0 + 1

\* i += batchSize
NextIndex(i0) == i0 + batchSize

\* The limiter admitting one function too many: activeCount <= concurrency
HasSlotOffByOne(active) == active <= concurrency

\* pLimit(5): a queued function starts only while activeCount < concurrency
HasSlot(active) == active < concurrency

\* The limiter's queue emptied when a write fails for good (limit.clearQueue())
SiblingsCancelled(q) == <<>>

\* The limiter's queue after a write has failed for good: nothing in
\* initializeVectorStore or retryWithBackoff touches it
SiblingsAfterFailure(q) == q

\* Promise.allSettled in place of Promise.all: a rejection is not passed on
AfterRejectionSwallowed(p) == p

\* await Promise.all(...) with a rejected element throws out of the for loop,
\* of initializeVectorStore and of initializeChatbot, the first time only
AfterRejection(p) == IF p = "ingesting" THEN "failed" ELSE p

\* limit(() => retryWithBackoff(() => fromDocuments([doc], ...))) starting:
\* the limiter runs the function, retryWithBackoff invokes fn
StartedTask == [st |-> "running", frame |-> RetryEnter(DefaultMaxRetries)]

\* The first element of docs passed to every call: fromDocuments([docs[0]], ...)
CallWithFirst(ds, j) == [index |-> j, doc |-> ds[1]]

\* the call QdrantVectorStore.fromDocuments([doc], ...) for element j of docs
Call(ds, j) == [index |-> j, doc |-> ds[j]]

RECURSIVE Drain(_, _)
(* The limiter starting queued functions, in queue order, while it has a   *)
(* free slot.  L is [tasks, queue, activeCount, handed].                   *)
Drain(L, ds) ==
    IF HasSlot(L.activeCount) /\ L.queue # <<>>
    THEN LET j == Head(L.queue) IN
         Drain([tasks |-> [L.tasks EXCEPT ![j] = StartedTask],
                queue |-> Tail(L.queue),
                activeCount |-> L.activeCount + 1,
                handed |-> L.handed \cup {Call(ds, j)}], ds)
    ELSE L

\* batch.map(doc => limit(...)): every element of the batch is handed to the
\* limiter, in order, and the limiter starts what it has room for
SubmitBatch(L, ds, i0) ==
    LET idx == BatchIndices(ds, i0) IN
    Drain([L EXCEPT
             !.tasks = [j \in DOMAIN L.tasks |->
                          IF \E k \in DOMAIN idx : idx[k] = j
                          THEN [st |-> "queued", frame |-> NoFrame]
                          ELSE L.tasks[j]],
             !.queue = L.queue \o idx], ds)

\* a limited function settled: the limiter frees its slot and starts the
\* next queued function
Settle(L, ds, j, st, q) ==
    Drain([L EXCEPT !.tasks[j] = [st |-> st, frame |-> NoFrame],
                    !.queue = q,
                    !.activeCount = L.activeCount - 1], ds)

\* Promise.all of the current batch resolves when every element has resolved
BatchResolved(ts, ds, i0) ==
    \A k \in DOMAIN BatchIndices(ds, i0) :
        ts[BatchIndices(ds, i0)[k]].st = "resolved"

\* console.log(`Processed ${i + batch.length} out of ${docs.length} documents`)
ProgressLine(ds, i0) == <<i0 + Len(Slice(ds, i0, i0 + batchSize)), Len(ds)>>

\* RecursiveCharacterTextSplitter.splitDocuments: each document yields
\* counts[d] chunks, in document order, each with the document's metadata
\* (and its place in the document under loc)
Chunk(raw, d, k) ==
    [pageContent |-> [of |-> d, part |-> k],
     metadata |-> [key \in DOMAIN raw[d].metadata \cup {"loc"} |->
                     IF key = "loc" THEN k ELSE raw[d].metadata[key]]]

RECURSIVE SplitFrom(_, _, _)
SplitFrom(raw, counts, d) ==
    IF d > Len(raw) THEN <<>>
    ELSE [k \in 1..counts[d] |-> Chunk(raw, d, k)] \o SplitFrom(raw, counts, d + 1)

SplitDocuments(raw, counts) == SplitFrom(raw, counts, 1)

\* the numbers of chunks the splitter may cut the documents into: none from
\* an empty text, at most MaxChunksPerDoc from any other
ChunkCounts(raw) ==
    {c \in [1..Len(raw) -> 0..MaxChunksPerDoc] :
        \A d \in 1..Len(raw) : raw[d].pageContent = "" => c[d] = 0}

(* What the loaders of SpecIngest can resolve to *)

EntryHello ==
    [name |-> NameMdUpper, readable |-> TRUE, text |-> "Hello world",
     title |-> "", description |-> Undefined, main |-> ""]
EntryEmptyTxt ==
    [name |-> NameTxt, readable |-> TRUE, text |-> "",
     title |-> "", description |-> Undefined, main |-> ""]
EntryBareHtml ==
    [name |-> NameHtml, readable |-> TRUE, text |-> "<html>",
     title |-> "", description |-> Undefined, main |-> ""]
EntryUnknown ==
    [name |-> NamePdf, readable |-> TRUE, text |-> "x",
     title |-> "", description |-> Undefined, main |-> ""]

EntryTitledHtml ==
    [name |-> NameHtml, readable |-> TRUE, text |-> "<html>",
     title |-> "Title", description |-> Attr("About"), main |-> "Body"]
EntryUnreadable ==
    [name |-> NameNested, readable |-> FALSE, text |-> "",
     title |-> "", description |-> Undefined, main |-> ""]

IngestListings ==
    { <<EntryHello, EntryUnknown>>,
      <<EntryEmptyTxt, EntryHello>>,
      <<EntryBareHtml, EntryHello>>,
      <<EntryUnreadable, EntryTitledHtml, EntryHello>> }

\* CheerioWebBaseLoader.load(): the page as one document
UrlResults == { <<Document("page text", [source |-> "https://host/page"])>> }

\* GithubRepoLoader.load(): one document per file of the repository
GithubResults ==
    { <<Document("readme", [source |-> "README.md"]),
        Document("code", [source |-> "src/x.js"]),
        Document("", [source |-> "empty.txt"]),
        Document("notes", [source |-> "doc/notes.md"])>> }

SourceTypes == {"directory", "url", "github", "ftp"}

NoError == [kind |-> "none", chunk |-> 0, attempt |-> 0]
\* new Error('Invalid source type')
InvalidSourceType == [kind |-> "Invalid source type", chunk |-> 0, attempt |-> 0]
LoaderError == [kind |-> "loader", chunk |-> 0, attempt |-> 0]
\* the error fromDocuments rejected with on the attempt-th call for element j
WriteError(j, attempt) == [kind |-> "write", chunk |-> j, attempt |-> attempt]
----------------------------------------------------------------------------
(* createChatbot and askQuestion (src/chatbot.ts 176-210): the chain is    *)
(* the sequence { context, question } -> prompt -> ollama.                 *)

RECURSIVE Join(_, _)
\* Array.prototype.join
Join(strs, sep) ==
    IF Len(strs) = 0 THEN ""
    ELSE IF Len(strs) = 1 THEN strs[1]
    ELSE strs[1] \o sep \o Join(Tail(strs), sep)

\* docs.map(doc => doc.pageContent).join('\n')
Context(ds) == Join([k \in 1..Len(ds) |-> ds[k].pageContent], "\n")

\* A template whose context placeholder is misspelt: {contex} is not filled
RenderWithoutContext(input) ==
    <<"Answer the following question based on the context:\n        Context: ",
      "{contex}",
      "\n        Question: ",
      input.question,
      "\n        Answer:">>

\* PromptTemplate.fromTemplate(...) applied to { context, question }: the
\* literal pieces of the template and the two values substituted, in order
Render(input) ==
    <<"Answer the following question based on the context:\n        Context: ",
      input.context,
      "\n        Question: ",
      input.question,
      "\n        Answer:">>

Questions == {"What is X?", "How do I load a LAS file?"}
Passages == {"X is a widget.", "LAS files are loaded with a plugin."}
Responses == {"X is a widget, says the context.", ""}

\* what the retriever can resolve to
Retrievals ==
    SeqsUpTo({Document(p, [source |-> "xeokit-docs"]) : p \in Passages},
             MaxRetrieved)

NoAnswer == [ok |-> FALSE, value |-> "none"]
Failure(step) == [ok |-> FALSE, value |-> step]
Success(response) == [ok |-> TRUE, value |-> response]
----------------------------------------------------------------------------
(* The parts of the state a specification does not exercise *)

RtIdle ==
    /\ maxRetries = DefaultMaxRetries
    /\ initialDelay = DefaultInitialDelay
    /\ fnPlan = [always |-> FALSE, r |-> 0]
    /\ rtTask = NoFrame
    /\ rtCalls = 0
    /\ rtWaits = <<>>

LdIdle ==
    /\ files = <<>>
    /\ fileIdx = 0
    /\ documents = <<>>
    /\ ldPc = "returned"

IngIdle ==
    /\ pc = "start"
    /\ sourceType = "directory"
    /\ loadersRun = <<>>
    /\ rawDocs = <<>>
    /\ docs = <<>>
    /\ i = 0
    /\ tasks = <<>>
    /\ queue = <<>>
    /\ activeCount = 0
    /\ handed = {}
    /\ writes = <<>>
    /\ progress = <<>>
    /\ retryLog = {}
    /\ batches = <<>>
    /\ error = NoError
    /\ initialized = FALSE

QaIdle ==
    /\ qaState = "Idle"
    /\ question = ""
    /\ retrieved = <<>>
    /\ llmInput = <<>>
    /\ llmResponse = ""
    /\ answer = NoAnswer
    /\ retrievals = 0
    /\ generations = 0
    /\ qaTrace = <<"Idle">>
    /\ asked = 0

----------------
(* SpecRetry: one call retryWithBackoff(fn, maxRetries, initialDelay) with *)
(* a fn that rejects on its first r invocations (or on all of them).       *)

FnPlans == [always : {FALSE}, r : 0..MaxFails] \cup {[always |-> TRUE, r |-> 0]}

\* does the callNo-th invocation of fn (counted from 1) reject?
FnRejects(plan, callNo) == plan.always \/ callNo <= plan.r

RtInit ==
    /\ maxRetries \in 0..MaxRetriesBound
    /\ initialDelay \in InitialDelays
    /\ fnPlan \in FnPlans
    /\ rtTask = RetryEnter(maxRetries)
    /\ rtCalls = IF rtTask.phase = "calling" THEN 1 ELSE 0
    /\ rtWaits = <<>>

RtFnResolves ==
    /\ rtTask.phase = "calling"
    /\ ~FnRejects(fnPlan, rtCalls)
    /\ rtTask' = RetryOnResolve(rtTask)
    /\ UNCHANGED <<maxRetries, initialDelay, fnPlan, rtCalls, rtWaits, ldVars, ingVars, qaVars>>

RtFnRejects ==
    /\ rtTask.phase = "calling"
    /\ FnRejects(fnPlan, rtCalls)
    /\ rtTask' = RetryOnReject(rtTask, maxRetries, initialDelay)
    /\ rtWaits' = IF rtTask'.phase = "waiting"
                  THEN Append(rtWaits, rtTask'.delay) ELSE rtWaits
    /\ UNCHANGED <<maxRetries, initialDelay, fnPlan, rtCalls, ldVars, ingVars, qaVars>>

RtTimeout ==
    /\ rtTask.phase = "waiting"
    /\ rtTask' = RetryOnTimeout(rtTask, maxRetries)
    /\ rtCalls' = IF rtTask'.phase = "calling" THEN rtCalls + 1 ELSE rtCalls
    /\ UNCHANGED <<maxRetries, initialDelay, fnPlan, rtWaits, ldVars, ingVars, qaVars>>

RtNext == RtFnResolves \/ RtFnRejects \/ RtTimeout

RetryInit == RtInit /\ LdIdle /\ IngIdle /\ QaIdle

SpecRetry == RetryInit /\ [][RtNext]_vars

----------------------------------------------------------------------------------------------------------------------------------------
(* SpecLoad: one call of loadDocumentsFromDirectory, from the moment       *)
(* fs.readdir has resolved; each step is one iteration of the for loop.    *)

LdInit ==
    /\ files \in SeqsUpTo(Entries, MaxFiles)
    /\ fileIdx = 0
    /\ documents = <<>>
    /\ ldPc = IF files = <<>> THEN "returned" ELSE "loop"

\* the route the switch takes for an entry
Route(e) ==
    LET ext == ToLowerCase(Extname(e.name)) IN
    IF ext = ExtTxt \/ ext = ExtMd THEN "text"
    ELSE IF ext = ExtHtml THEN "html" ELSE "unsupported"

\* one iteration of the loop, then the loop test and (after the last entry)
\* return documents
LdIterate ==
    /\ documents' = ProcessFile(documents, files[fileIdx + 1])
    /\ fileIdx' = fileIdx + 1
    /\ ldPc' = IF fileIdx' < Len(files) THEN "loop" ELSE "returned"
    /\ UNCHANGED <<files, rtVars, ingVars, qaVars>>

\* case '.txt', '.md': readFile resolves
LdReadText ==
    /\ ldPc = "loop"
    /\ Route(files[fileIdx + 1]) = "text"
    /\ files[fileIdx + 1].readable
    /\ LdIterate

\* case '.html': readFile resolves, cheerio extracts the parts
LdParseHtml ==
    /\ ldPc = "loop"
    /\ Route(files[fileIdx + 1]) = "html"
    /\ files[fileIdx + 1].readable
    /\ LdIterate

\* readFile rejects: the catch block logs the error
LdFileError ==
    /\ ldPc = "loop"
    /\ Route(files[fileIdx + 1]) # "unsupported"
    /\ ~files[fileIdx + 1].readable
    /\ LdIterate

\* default: warn and continue
LdUnsupported ==
    /\ ldPc = "loop"
    /\ Route(files[fileIdx + 1]) = "unsupported"
    /\ LdIterate

LdNext == LdReadText \/ LdParseHtml \/ LdFileError \/ LdUnsupported

LoadInit == LdInit /\ RtIdle /\ IngIdle /\ QaIdle

SpecLoad == LoadInit /\ [][LdNext]_vars

----------------------------------------------------------------------------
(* SpecIngest: one call initializeChatbot(source, sourceType).  A step is  *)
(* the completion of one awaited operation (a loader, the splitter, a      *)
(* vector-store write, a backoff timer) with everything the code does in   *)
(* response before it awaits again.                                        *)

IcInit ==
    /\ pc = "start"
    /\ sourceType \in SourceTypes
    /\ loadersRun = <<>>
    /\ rawDocs = <<>>
    /\ docs = <<>>
    /\ i = 0
    /\ tasks = <<>>
    /\ queue = <<>>
    /\ activeCount = 0
    /\ handed = {}
    /\ writes = <<>>
    /\ progress = <<>>
    /\ retryLog = {}
    /\ batches = <<>>
    /\ error = NoError
    /\ initialized = FALSE

IngestInit == IcInit /\ RtIdle /\ LdIdle /\ QaIdle

\* the limiter and the writes, as one record
Limiter == [tasks |-> tasks, queue |-> queue, activeCount |-> activeCount,
            handed |-> handed]

SetLimiter(L) ==
    /\ tasks' = L.tasks
    /\ queue' = L.queue
    /\ activeCount' = L.activeCount
    /\ handed' = L.handed

\* case 'directory': rawDocs = await loadDocumentsFromDirectory(source)
IcLoadDirectory ==
    /\ pc = "start"
    /\ sourceType = "directory"
    /\ \E listing \in IngestListings :
          rawDocs' = LoadDocumentsFromDirectory(listing)
    /\ loadersRun' = Append(loadersRun, "directory")
    /\ pc' = "loaded"
    /\ UNCHANGED <<sourceType, docs, i, tasks, queue, activeCount, handed,
                   writes, progress, batches, error, initialized,
                   retryLog, rtVars, ldVars, qaVars>>

\* case 'url': rawDocs = await loadDocumentsFromUrl(source)
IcLoadUrl ==
    /\ pc = "start"
    /\ sourceType = "url"
    /\ rawDocs' \in UrlResults
    /\ loadersRun' = Append(loadersRun, "url")
    /\ pc' = "loaded"
    /\ UNCHANGED <<sourceType, docs, i, tasks, queue, activeCount, handed,
                   writes, progress, batches, error, initialized,
                   retryLog, rtVars, ldVars, qaVars>>

\* case 'github': rawDocs = await loadDocumentsFromGithub(source)
IcLoadGithub ==
    /\ pc = "start"
    /\ sourceType = "github"
    /\ rawDocs' \in GithubResults
    /\ loadersRun' = Append(loadersRun, "github")
    /\ pc' = "loaded"
    /\ UNCHANGED <<sourceType, docs, i, tasks, queue, activeCount, handed,
                   writes, progress, batches, error, initialized,
                   retryLog, rtVars, ldVars, qaVars>>

\* the loader itself rejects (readdir, the fetch or the repository listing
\* fails): the await throws out of initializeChatbot
IcLoaderFails ==
    /\ pc = "start"
    /\ sourceType \in {"directory", "url", "github"}
    /\ loadersRun' = Append(loadersRun, sourceType)
    /\ pc' = "failed"
    /\ error' = LoaderError
    /\ UNCHANGED <<sourceType, rawDocs, docs, i, tasks, queue, activeCount,
                   handed, writes, progress, batches, initialized,
                   retryLog, rtVars, ldVars, qaVars>>

\* A default branch that falls back to the directory loader
IcInvalidSourceAsDirectory ==
    /\ pc = "start"
    /\ sourceType \notin {"directory", "url", "github"}
    /\ \E listing \in IngestListings :
          rawDocs' = LoadDocumentsFromDirectory(listing)
    /\ loadersRun' = Append(loadersRun, "directory")
    /\ pc' = "loaded"
    /\ UNCHANGED <<sourceType, docs, i, tasks, queue, activeCount, handed,
                   writes, progress, batches, error, initialized,
                   retryLog, rtVars, ldVars, qaVars>>

\* default: throw new Error('Invalid source type')
IcInvalidSource ==
    /\ pc = "start"
    /\ sourceType \notin {"directory", "url", "github"}
    /\ pc' = "failed"
    /\ error' = InvalidSourceType
    /\ UNCHANGED <<sourceType, loadersRun, rawDocs, docs, i, tasks, queue,
                   activeCount, handed, writes, progress, batches,
                   initialized, retryLog, rtVars, ldVars, qaVars>>

\* docs = await textSplitter.splitDocuments(rawDocs) yields no chunk:
\* the for loop of initializeVectorStore does not run, the success line is
\* logged
IcNothingToIngest ==
    /\ pc = "loaded"
    /\ \E counts \in ChunkCounts(rawDocs) :
          /\ docs' = SplitDocuments(rawDocs, counts)
          /\ Len(docs') = 0
    /\ pc' = "done"
    /\ initialized' = TRUE
    /\ UNCHANGED <<sourceType, loadersRun, rawDocs, i, tasks, queue,
                   activeCount, handed, writes, progress, batches,
                   error, retryLog, rtVars, ldVars, qaVars>>

\* docs = await textSplitter.splitDocuments(rawDocs);
\* initializeVectorStore(docs) up to the first await Promise.all
IcStartIngestion ==
    /\ pc = "loaded"
    /\ \E counts \in ChunkCounts(rawDocs) :
          /\ docs' = SplitDocuments(rawDocs, counts)
          /\ Len(docs') > 0
          /\ SetLimiter(SubmitBatch(
                 [tasks |-> [j \in 1..Len(docs') |->
                               [st |-> "unsubmitted", frame |-> NoFrame]],
                  queue |-> <<>>, activeCount |-> 0, handed |-> {}],
                 docs', 0))
          /\ writes' = [j \in 1..Len(docs') |-> 0]
          /\ batches' = <<BatchIndices(docs', 0)>>
    /\ i' = 0
    /\ pc' = "ingesting"
    /\ UNCHANGED <<sourceType, loadersRun, rawDocs, progress, error,
                   initialized, retryLog, rtVars, ldVars, qaVars>>

Calling(j) == tasks[j].st = "running" /\ tasks[j].frame.phase = "calling"
Waiting(j) == tasks[j].st = "running" /\ tasks[j].frame.phase = "waiting"

\* the limiter and the writes after the write for element j has resolved
AfterResolve(j) == Settle(Limiter, docs, j, "resolved", queue)

\* fromDocuments resolves for element j; other elements of its batch are
\* still pending, or initializeVectorStore has already thrown
WriteResolves(j) ==
    /\ Calling(j)
    /\ ~(pc = "ingesting" /\ BatchResolved(AfterResolve(j).tasks, docs, i))
    /\ SetLimiter(AfterResolve(j))
    /\ writes' = [writes EXCEPT ![j] = @ + 1]
    /\ UNCHANGED <<pc, sourceType, loadersRun, rawDocs, docs, i, progress,
                   batches, error, initialized, retryLog, rtVars,
                   ldVars, qaVars>>

\* fromDocuments resolves for the last pending element of a batch that is
\* not the last: the progress line is logged and the next batch is submitted
BatchCompletes(j) ==
    /\ Calling(j)
    /\ pc = "ingesting"
    /\ BatchResolved(AfterResolve(j).tasks, docs, i)
    /\ NextIndex(i) < Len(docs)
    /\ writes' = [writes EXCEPT ![j] = @ + 1]
    /\ progress' = Append(progress, ProgressLine(docs, i))
    /\ i' = NextIndex(i)
    /\ batches' = Append(batches, BatchIndices(docs, i'))
    /\ SetLimiter(SubmitBatch(AfterResolve(j), docs, i'))
    /\ UNCHANGED <<pc, sourceType, loadersRun, rawDocs, docs, error,
                   initialized, retryLog, rtVars, ldVars, qaVars>>

\* fromDocuments resolves for the last pending element of the last batch:
\* the loop ends, initializeVectorStore returns, the success line is logged
IngestionCompletes(j) ==
    /\ Calling(j)
    /\ pc = "ingesting"
    /\ BatchResolved(AfterResolve(j).tasks, docs, i)
    /\ ~(NextIndex(i) < Len(docs))
    /\ writes' = [writes EXCEPT ![j] = @ + 1]
    /\ progress' = Append(progress, ProgressLine(docs, i))
    /\ i' = NextIndex(i)
    /\ SetLimiter(AfterResolve(j))
    /\ pc' = "done"
    /\ initialized' = TRUE
    /\ UNCHANGED <<sourceType, loadersRun, rawDocs, docs, batches, error,
                   retryLog, rtVars, ldVars, qaVars>>

\* fromDocuments rejects for element j with attempts left: the retry line is
\* logged and the backoff timer is set
WriteRejectsRetry(j) ==
    /\ Calling(j)
    /\ RetryOnReject(tasks[j].frame, DefaultMaxRetries,
                     DefaultInitialDelay).phase = "waiting"
    /\ tasks' = [tasks EXCEPT ![j].frame =
                    RetryOnReject(@, DefaultMaxRetries, DefaultInitialDelay)]
    /\ retryLog' = retryLog \cup {RetryLine(tasks'[j].frame)}
    /\ UNCHANGED <<pc, sourceType, loadersRun, rawDocs, docs, i, queue,
                   activeCount, handed, writes, progress, batches,
                   error, initialized, rtVars, ldVars, qaVars>>

\* fromDocuments rejects for element j on its last attempt: retryWithBackoff
\* throws, the limiter frees the slot, Promise.all rejects
WriteFails(j) ==
    /\ Calling(j)
    /\ RetryOnReject(tasks[j].frame, DefaultMaxRetries,
                     DefaultInitialDelay).phase = "thrown"
    /\ SetLimiter(Settle(Limiter, docs, j, "rejected",
                         SiblingsAfterFailure(queue)))
    /\ pc' = AfterRejection(pc)
    /\ error' = IF pc' # pc
                THEN WriteError(j, tasks[j].frame.retries + 1)
                ELSE error
    /\ UNCHANGED <<sourceType, loadersRun, rawDocs, docs, i, writes, progress,
                   batches, initialized, retryLog, rtVars, ldVars,
                   qaVars>>

\* the backoff timer of element j fires: fn is invoked again
BackoffTimeout(j) ==
    /\ Waiting(j)
    /\ tasks' = [tasks EXCEPT ![j].frame = RetryOnTimeout(@, DefaultMaxRetries)]
    /\ handed' = handed \cup {Call(docs, j)}
    /\ UNCHANGED <<pc, sourceType, loadersRun, rawDocs, docs, i, queue,
                   activeCount, writes, progress, batches, error,
                   initialized, retryLog, rtVars, ldVars, qaVars>>

IngestNext ==
    \/ IcLoadDirectory
    \/ IcLoadUrl
    \/ IcLoadGithub
    \/ IcLoaderFails
    \/ IcInvalidSource
    \/ IcNothingToIngest
    \/ IcStartIngestion
    \/ \E j \in DOMAIN tasks : WriteResolves(j)
    \/ \E j \in DOMAIN tasks : BatchCompletes(j)
    \/ \E j \in DOMAIN tasks : IngestionCompletes(j)
    \/ \E j \in DOMAIN tasks : WriteRejectsRetry(j)
    \/ \E j \in DOMAIN tasks : WriteFails(j)
    \/ \E j \in DOMAIN tasks : BackoffTimeout(j)

SpecIngest == IngestInit /\ [][IngestNext]_vars

----------------------------------------------------------------------------
(* SpecQA: the chain createChatbot built, and calls of askQuestion on it   *)
(* one after the other, as main does.                                      *)

\* createChatbot has resolved to the chain; no question asked yet
ChainInit == QaIdle /\ RtIdle /\ LdIdle /\ IngIdle

\* askQuestion(chain, question): chain.invoke({ question }) starts the first
\* step, which calls retriever.getRelevantDocuments(input.question)
AskQuestion ==
    /\ qaState = "Idle"
    /\ asked < MaxQuestions
    /\ question' \in Questions
    /\ asked' = asked + 1
    /\ qaState' = "Retrieving"
    /\ retrieved' = <<>>
    /\ llmInput' = <<>>
    /\ llmResponse' = ""
    /\ answer' = NoAnswer
    /\ retrievals' = 1
    /\ generations' = 0
    /\ qaTrace' = <<"Idle", "Retrieving">>
    /\ UNCHANGED <<rtVars, ldVars, ingVars>>

\* the retriever resolves: the context is joined, the prompt is rendered and
\* the language model is invoked with it
RetrievalReturns ==
    /\ qaState = "Retrieving"
    /\ retrieved' \in Retrievals
    /\ llmInput' = Render([context |-> Context(retrieved'), question |-> question])
    /\ generations' = generations + 1
    /\ qaState' = "Answering"
    /\ qaTrace' = Append(qaTrace, "Answering")
    /\ UNCHANGED <<question, llmResponse, answer, retrievals, asked,
                   rtVars, ldVars, ingVars>>

\* the retriever rejects: chain.invoke rejects, askQuestion rejects
RetrievalFails ==
    /\ qaState = "Retrieving"
    /\ answer' = Failure("retrieval")
    /\ qaState' = "Idle"
    /\ qaTrace' = Append(qaTrace, "Idle")
    /\ UNCHANGED <<question, retrieved, llmInput, llmResponse, retrievals,
                   generations, asked, rtVars, ldVars, ingVars>>

\* the retriever resolves but the prompt step rejects: the language model is
\* not invoked
RenderFails ==
    /\ qaState = "Retrieving"
    /\ retrieved' \in Retrievals
    /\ answer' = Failure("prompt")
    /\ qaState' = "Idle"
    /\ qaTrace' = Append(qaTrace, "Idle")
    /\ UNCHANGED <<question, llmInput, llmResponse, retrievals, generations,
                   asked, rtVars, ldVars, ingVars>>

\* the language model resolves: askQuestion returns its response
GenerationReturns ==
    /\ qaState = "Answering"
    /\ llmResponse' \in Responses
    /\ answer' = Success(llmResponse')
    /\ qaState' = "Idle"
    /\ qaTrace' = Append(qaTrace, "Idle")
    /\ UNCHANGED <<question, retrieved, llmInput, retrievals, generations,
                   asked, rtVars, ldVars, ingVars>>

\* the language model rejects: askQuestion rejects
GenerationFails ==
    /\ qaState = "Answering"
    /\ answer' = Failure("generation")
    /\ qaState' = "Idle"
    /\ qaTrace' = Append(qaTrace, "Idle")
    /\ UNCHANGED <<question, retrieved, llmInput, llmResponse, retrievals,
                   generations, asked, rtVars, ldVars, ingVars>>

QaNext ==
    \/ AskQuestion
    \/ RetrievalReturns
    \/ RetrievalFails
    \/ RenderFails
    \/ GenerationReturns
    \/ GenerationFails

SpecQA == ChainInit /\ [][QaNext]_vars

----------------
(* Claims about retryWithBackoff, checked under SpecRetry *)

RtTerminal == rtTask.phase \in {"returned", "thrown", "fellthrough"}

\* fn succeeds within the attempt budget
RtSucceedsInBudget == ~fnPlan.always /\ fnPlan.r < maxRetries

C6_WaitsStartAtInitialDelay ==
    /\ \A k \in 1..Len(rtWaits) : rtWaits[k] = initialDelay * Pow2(k - 1)
    /\ rtTask.phase = "thrown" => Len(rtWaits) = maxRetries - 1

----------------------------------------------------------------------------
(* Claims about loadDocumentsFromDirectory, checked under SpecLoad *)

\* the names of the model whose extension is .txt, .md or .html in any case
C8_RecognizedNames == {NameTxt, NameMdUpper, NameHtml, NameNested}

C8_Kept(e) == e.name \in C8_RecognizedNames /\ e.readable

\* C8: after any number of iterations the documents are, in listing order,
\* exactly one per consumed entry that has a recognized extension and was
\* read, named after it and (for .txt and .md) holding its text; the loop
\* goes on to the last entry whatever the entries were, and then returns.
C8_DirectoryScan ==
    LET kept == SelectSeq(SubSeq(files, 1, fileIdx), C8_Kept) IN
    /\ Len(documents) = Len(kept)
    /\ \A k \in 1..Len(kept) :
          /\ documents[k].metadata.source = kept[k].name
          /\ kept[k].name # NameHtml => documents[k].pageContent = kept[k].text
    /\ ldPc \in {"loop", "returned"}
    /\ ldPc = "returned" <=> fileIdx = Len(files)

\* C8 witness: the call has returned one document for a listing whose first
\* entry could not be read and whose second entry is an upper-case .MD file.
C8_Witness ==
    /\ ldPc = "returned"
    /\ Len(files) = 2
    /\ files[1].name = NameTxt /\ ~files[1].readable
    /\ files[2].name = NameMdUpper /\ files[2].readable
    /\ Len(documents) = 1
    /\ documents[1].metadata.source = NameMdUpper

----------------------------------------------------------------------------
(* Claims about initializeChatbot and initializeVectorStore, checked under *)
(* SpecIngest                                                              *)

InFlight == {j \in DOMAIN tasks : Calling(j)}
Rejected == {j \in DOMAIN tasks : tasks[j].st = "rejected"}
Quiescent == \A j \in DOMAIN tasks : tasks[j].st \notin {"running", "queued"}
WasHanded(j) == \E c \in handed : c.index = j
InQueue(j) == \E k \in DOMAIN queue : queue[k] = j
LastBatch == batches[Len(batches)]
InLastBatch(j) == \E k \in DOMAIN LastBatch : LastBatch[k] = j
CeilDiv(n, b) == (n + b - 1) \div b

\* C1: at no time are more than concurrency vector-store writes in flight
\* (nor more than concurrency limited functions running, a backoff wait
\* included).
C1_ConcurrencyLimit ==
    /\ Cardinality(InFlight) <= concurrency
    /\ Cardinality({j \in DOMAIN tasks : tasks[j].st = "running"}) <= concurrency

\* C1 witness: concurrency writes are in flight while another element of the
\* batch waits in the limiter's queue and an earlier one is already written.
C1_Witness ==
    /\ Cardinality(InFlight) = concurrency
    /\ queue # <<>>
    /\ \E j \in DOMAIN tasks : tasks[j].st = "resolved"

\* C3 (as amended): once a write has failed for good, the other elements of
\* its batch are not cancelled (each stays queued in the limiter until it is
\* started, and has been handed to the vector store by the time nothing is
\* pending), but no element of a later batch is ever submitted or written.
C3_FailureStopsLaterBatches ==
    Rejected # {} =>
        /\ \A f \in Rejected : InLastBatch(f)
        /\ \A j \in DOMAIN tasks :
              IF InLastBatch(j)
              THEN /\ tasks[j].st # "unsubmitted"
                   /\ tasks[j].st = "queued" => InQueue(j)
                   /\ Quiescent => WasHanded(j)
              ELSE IF j > i
                   THEN tasks[j].st = "unsubmitted" /\ ~WasHanded(j)
                        /\ writes[j] = 0
                   ELSE tasks[j].st = "resolved"

\* C3 witness: a write of the first batch failed for good, a sibling of that
\* batch was written all the same, nothing is pending any more, and the
\* elements of the second batch were never submitted.
C3_Witness ==
    /\ Rejected # {}
    /\ Quiescent
    /\ \E j \in DOMAIN tasks : InLastBatch(j) /\ tasks[j].st = "resolved"
    /\ \E j \in DOMAIN tasks : tasks[j].st = "unsubmitted"

\* C3 as stated: a write that failed for good does not prevent the writes of
\* the other batches of the run: once nothing is pending, every element of
\* docs has been handed to the vector store.
C3_Original ==
    (Rejected # {} /\ Quiescent) => \A j \in DOMAIN tasks : WasHanded(j)

\* C4: once a write has failed on all its attempts, initializeChatbot has
\* ended in failure with the error of such a write (the one of its last
\* attempt) and the success line is never logged.
C4_FailureSurfaced ==
    /\ Rejected # {} =>
          /\ pc = "failed"
          /\ error.kind = "write"
          /\ error.chunk \in Rejected
          /\ error.attempt = DefaultMaxRetries
    /\ pc = "failed" => ~initialized
    /\ initialized => pc = "done"

\* C4 witness: one write failed for good, every other write of the batch
\* resolved, and the call has ended in failure with that write's error.
C4_Witness ==
    /\ Cardinality(Rejected) = 1
    /\ Quiescent
    /\ pc = "failed"
    /\ error.chunk \in Rejected
    /\ ~initialized

\* C5: when initializeVectorStore has returned, the batches sliced are the
\* ceil(n/batchSize) consecutive runs of batchSize elements of docs (the last
\* one holding the remainder), and one progress line was logged per batch,
\* in order, with the totals min(k*batchSize, n) out of n; before that, one
\* line per batch already resolved.
C5_BatchesAndProgress ==
    LET n == Len(docs) IN
    /\ \A k \in 1..Len(batches) :
          batches[k] = [m \in 1..(Min(k * batchSize, n) - (k - 1) * batchSize)
                          |-> (k - 1) * batchSize + m]
    /\ \A k \in 1..Len(progress) : progress[k] = <<Min(k * batchSize, n), n>>
    /\ pc = "ingesting" => Len(progress) = Len(batches) - 1
    /\ Len(progress) <= Len(batches)
    /\ pc = "done" =>
          /\ Len(batches) = CeilDiv(n, batchSize)
          /\ Len(progress) = CeilDiv(n, batchSize)

\* C5 witness: the run is done after more than one batch, the last of which
\* was not full.
C5_Witness ==
    /\ pc = "done"
    /\ Len(progress) >= 2
    /\ Len(docs) % batchSize # 0
    /\ progress[Len(progress)] = <<Len(docs), Len(docs)>>

\* C7: a call with a source type other than directory, url and github has
\* failed with 'Invalid source type' as soon as it has taken a step: no
\* loader was called, nothing was split and nothing was written.
C7_InvalidSourceFailsFast ==
    (sourceType \notin {"directory", "url", "github"} /\ pc # "start") =>
        /\ pc = "failed"
        /\ error = InvalidSourceType
        /\ loadersRun = <<>>
        /\ rawDocs = <<>>
        /\ docs = <<>>
        /\ handed = {}
        /\ ~initialized

\* C7 witness: the call with source type ftp has failed.
C7_Witness ==
    /\ sourceType = "ftp"
    /\ pc = "failed"
    /\ error = InvalidSourceType

\* every document handed to a write has the source of the Document the
\* splitter cut it from
SourceKept ==
    \A c \in handed :
        /\ "source" \in DOMAIN c.doc.metadata
        /\ c.doc.metadata.source = rawDocs[c.doc.pageContent.of].metadata.source
        /\ c.doc = docs[c.index]

\* C10 (as amended): every Document of the directory loader has a source key
\* in its metadata; its content is non-empty when it comes from an .html
\* entry (the two separators are always there) but is empty for an empty
\* .txt or .md file; every document handed to a write keeps the source of
\* the Document it came from.
C10_SourceKept ==
    /\ sourceType = "directory" =>
          \A d \in DOMAIN rawDocs :
              /\ "source" \in DOMAIN rawDocs[d].metadata
              /\ "title" \in DOMAIN rawDocs[d].metadata =>
                    Len(rawDocs[d].pageContent) >= 4
    /\ SourceKept

\* C10 witness: the directory held an empty .txt file, whose Document has
\* empty content and a source, and a chunk of the other Document was handed
\* to the vector store under that Document's source.
C10_Witness ==
    /\ sourceType = "directory"
    /\ \E d \in DOMAIN rawDocs :
          rawDocs[d].pageContent = "" /\ rawDocs[d].metadata.source = NameTxt
    /\ \E c \in handed : c.doc.metadata.source = NameMdUpper

\* C10 as stated: every Document of the directory loader has non-empty
\* content and a source key, and every document handed to a write keeps the
\* source of the Document it came from.
C10_Original ==
    /\ sourceType = "directory" =>
          \A d \in DOMAIN rawDocs :
              /\ "source" \in DOMAIN rawDocs[d].metadata
              /\ rawDocs[d].pageContent # ""
    /\ SourceKept


\* the number of places of the batches sliced so far that hold element j
TimesBatched(j) ==
    Cardinality({p \in {<<k, m>> : k \in DOMAIN batches, m \in DOMAIN docs} :
                    /\ p[2] \in DOMAIN batches[p[1]]
                    /\ batches[p[1]][p[2]] = j})

\* the number of places of the limiter's queue that hold element j
TimesQueued(j) == Cardinality({k \in DOMAIN queue : queue[k] = j})

\* C11: when initializeVectorStore has returned, every element of docs has
\* had exactly one write that resolved.  At every moment before that, no
\* element has had more than one; an element has had one exactly if its
\* limited function has resolved, and then it is neither queued nor running
\* again; an element is in at most one batch and at most once in the
\* limiter's queue, and is in a batch exactly if it was submitted.
C11_EachChunkWrittenOnce ==
    /\ DOMAIN writes = DOMAIN docs
    /\ DOMAIN tasks = DOMAIN docs
    /\ \A j \in DOMAIN docs :
          /\ writes[j] <= 1
          /\ writes[j] = 1 <=> tasks[j].st = "resolved"
          /\ TimesBatched(j) <= 1
          /\ TimesQueued(j) <= 1
          /\ TimesQueued(j) = 1 <=> tasks[j].st = "queued"
          /\ TimesBatched(j) = 1 <=> tasks[j].st # "unsubmitted"
    /\ pc = "done" =>
          \A j \in DOMAIN docs : writes[j] = 1 /\ TimesBatched(j) = 1

\* C11 witness: initializeVectorStore has returned after more than one
\* batch, both retry lines were logged on the way, and every element has one
\* resolved write.
C11_Witness ==
    /\ pc = "done"
    /\ initialized
    /\ Len(batches) >= 2
    /\ retryLog = {<<1, BackoffDelay(DefaultInitialDelay, 1)>>,
                   <<2, BackoffDelay(DefaultInitialDelay, 2)>>}
    /\ \A j \in DOMAIN docs : writes[j] = 1
----------------------------------------------------------------------------
(* Claims about the question-answering chain, checked under SpecQA *)

IsPrefix(s, t) == Len(s) <= Len(t) /\ \A k \in 1..Len(s) : s[k] = t[k]

\* C9: a question goes Idle, Retrieving, Answering, Idle in that order, or
\* back to Idle from the step that failed; the language model is invoked at
\* most once, only after the retriever has resolved, with a prompt holding
\* the joined retrieved passages and the question; the retriever is called
\* once; askQuestion returns the model's response, or fails with the failure
\* of the step that failed, after which no later step has run.
C9_QuestionLifecycle ==
    /\ \/ IsPrefix(qaTrace, <<"Idle", "Retrieving", "Answering", "Idle">>)
       \/ qaTrace = <<"Idle", "Retrieving", "Idle">>
    /\ qaState = qaTrace[Len(qaTrace)]
    /\ retrievals <= 1 /\ generations <= 1
    /\ generations = 1 =>
          /\ IsPrefix(<<"Idle", "Retrieving", "Answering">>, qaTrace)
          /\ llmInput[2] = Context(retrieved)
          /\ llmInput[4] = question
    /\ qaState = "Answering" => generations = 1 /\ answer = NoAnswer
    /\ answer.ok =>
          /\ qaTrace = <<"Idle", "Retrieving", "Answering", "Idle">>
          /\ answer.value = llmResponse
    /\ answer \in {Failure("retrieval"), Failure("prompt")} =>
          /\ qaTrace = <<"Idle", "Retrieving", "Idle">>
          /\ generations = 0
          /\ retrievals = 1
    /\ answer = Failure("generation") =>
          /\ qaTrace = <<"Idle", "Retrieving", "Answering", "Idle">>
          /\ generations = 1
          /\ retrievals = 1

\* C9 witness: the second question was answered with the model's response
\* after two passages were retrieved for it.
C9_Witness ==
    /\ asked = 2
    /\ answer.ok
    /\ Len(retrieved) = 2
    /\ qaTrace = <<"Idle", "Retrieving", "Answering", "Idle">>
    /\ answer.value = llmResponse

====
